---------------------------- MODULE Spec2Model ----------------------------
(***************************************************************************)
(* BinnedStatistic (src/histogram/binnedstatistic.rs): per-bin running     *)
(* statistics over a grid, updated online by add_sample.                   *)
(*                                                                         *)
(* The value type T is modelled by exact rationals <<num, den>> in lowest  *)
(* terms (den > 0); Option<X> by a sequence of length 0 (None) or 1        *)
(* (Some(x)); usize by two 16-bit limbs so that the `as i32` casts keep    *)
(* their 32-bit width; an ArrayD over the grid by a function over BinIds.  *)
(***************************************************************************)
EXTENDS Integers, Sequences, FiniteSets, TLC

(* ------------------------------ bounds --------------------------------- *)

\* Longest sequence of add_sample calls on one store.
MaxSamples == 3

\* Largest small ddof handed to new (besides None and the wide value).
MaxDdof == 2

(* ------------------------------ Option --------------------------------- *)

None == <<>>

Some(x) == <<x>>

unwrap(o) == o[1]

unwrap_or(o, default) == IF o = None THEN default ELSE o[1]

(* ------------------------- exact arithmetic (T) ------------------------ *)

Abs(x) == IF x < 0 THEN -x ELSE x

RECURSIVE GCD(_, _)
GCD(a, b) == IF b = 0 THEN a ELSE GCD(b, a % b)

\* The fraction n/d in lowest terms with a positive denominator.
Rat(n, d) ==
  LET g == GCD(Abs(n), Abs(d))
      s == IF d < 0 THEN -1 ELSE 1
  IN  <<(s * n) \div g, (s * d) \div g>>

Zero == <<0, 1>>

RatAdd(a, b) == Rat(a[1] * b[2] + b[1] * a[2], a[2] * b[2])

RatSub(a, b) == Rat(a[1] * b[2] - b[1] * a[2], a[2] * b[2])

RatMul(a, b) == Rat(a[1] * b[1], a[2] * b[2])

RatDiv(a, b) == Rat(a[1] * b[2], a[2] * b[1])

RatLess(a, b) == a[1] * b[2] < b[1] * a[2]

RatMax(a, b) == IF RatLess(a, b) THEN b ELSE a

RatMin(a, b) == IF RatLess(b, a) THEN b ELSE a

\* T::from_i32(n).unwrap()
from_i32(n) == <<n, 1>>

\* T::sqrt, kept symbolic: the square root of a non-negative rational.
sqrt(v) == [sqrt_of |-> v]

(* ------------------------------- usize --------------------------------- *)

\* Radix of the two limbs of a usize: 2^16.
Limb == 2 ^ 16

\* The usize of value hi * 2^16 + lo.
Usize(hi, lo) == [hi |-> hi, lo |-> lo]

usize_of(n) == Usize(n \div Limb, n % Limb)

\* `x as i32` for a usize x: the low 32 bits, read as two's complement.
as_i32(u) ==
  IF u.hi >= Limb \div 2 THEN (u.hi - Limb) * Limb + u.lo
                         ELSE u.hi * Limb + u.lo

\* count < u, for a small count and a usize u.
LessThanUsize(count, u) == u.hi > 0 \/ count < u.lo

\* u = count, for a small count and a usize u.
EqualsUsize(count, u) == u.hi = 0 /\ u.lo = count

(* -------------------------------- Grid --------------------------------- *)

\* Edges::from(vec![n64(-1.), n64(0.), n64(1.)]), the same bins on each axis.
Edges == << <<-1, 1>>, <<0, 1>>, <<1, 1>> >>

Grid == <<Edges, Edges>>

\* Bins::index_of: the bin [e_i, e_{i+1}) holding x, left inclusive and
\* right exclusive, or None outside the edges.
bins_index_of(edges, x) ==
  LET hits == {i \in 1..(Len(edges) - 1) :
                 ~RatLess(x, edges[i]) /\ RatLess(x, edges[i + 1])}
  IN  IF hits = {} THEN None ELSE Some((CHOOSE i \in hits : TRUE) - 1)

\* Grid::index_of: the per-axis bin indexes, or None if any axis misses.
index_of(grid, point) ==
  LET per_axis == [a \in 1..Len(grid) |-> bins_index_of(grid[a], point[a])]
  IN  IF \E a \in 1..Len(grid) : per_axis[a] = None
      THEN None
      ELSE Some([a \in 1..Len(grid) |-> unwrap(per_axis[a])])

\* Grid::shape as the set of bin indexes of an array of that shape.
BinIds == {id \in [1..Len(Grid) -> 0..(Len(Edges) - 2)] : TRUE}

(* ------------------------------- inputs -------------------------------- *)

P_in == << <<1, 2>>, <<3, 5>> >>

P_low == << <<-1, 2>>, <<1, 2>> >>

P_out == << <<5, 1>>, <<5, 1>> >>

Points == {P_in, P_low, P_out}

Values == { <<1, 1>>, <<2, 1>>, <<-3, 1>> }

\* usize::MAX of a 32-bit target (u32::MAX): its `as i32` is -1.
WideDdof == Usize(Limb - 1, Limb - 1)

DdofArgs == {None} \cup {Some(usize_of(d)) : d \in 0..MaxDdof} \cup {Some(WideDdof)}

(* ----------------------------- the store ------------------------------- *)

VARIABLES counts, sum, m1, m2, mean, variance, standard_deviation, min, max,
          ddof, ddof_arg, fed, accepted, ok_calls, last_result, status

store_vars == <<counts, sum, m1, m2, mean, variance, standard_deviation, min, max, ddof>>

vars == <<counts, sum, m1, m2, mean, variance, standard_deviation, min, max,
          ddof, ddof_arg, fed, accepted, ok_calls, last_result, status>>

\* The BinnedStatistic value held in the variables.
Self ==
  [counts |-> counts, sum |-> sum, m1 |-> m1, m2 |-> m2, mean |-> mean,
   variance |-> variance, standard_deviation |-> standard_deviation,
   min |-> min, max |-> max, grid |-> Grid, ddof |-> ddof]

\* BinnedStatistic::new
new(grid, ddof_opt) ==
  [counts |-> [id \in BinIds |-> None],
   sum |-> [id \in BinIds |-> None],
   m1 |-> [id \in BinIds |-> Zero],
   m2 |-> [id \in BinIds |-> Zero],
   mean |-> [id \in BinIds |-> None],
   variance |-> [id \in BinIds |-> None],
   standard_deviation |-> [id \in BinIds |-> None],
   min |-> [id \in BinIds |-> None],
   max |-> [id \in BinIds |-> None],
   grid |-> grid,
   ddof |-> unwrap_or(ddof_opt, usize_of(0))]

(* ----------------------------- add_sample ------------------------------ *)

next_count_mut_stuck(c) == IF c = None THEN Some(1) ELSE Some(unwrap(c))

\* self.counts[id] = match self.counts[id] { None => Some(1), Some(x) => Some(x + 1) }
next_count(c) == IF c = None THEN Some(1) ELSE Some(unwrap(c) + 1)

delta_n_of_mut_n1(delta, n) == RatDiv(delta, from_i32(n + 1))

\* let delta_n = delta / T::from_i32(n).unwrap();
delta_n_of(delta, n) == RatDiv(delta, from_i32(n))

term1_of_mut_n(delta, delta_n, n1) == RatMul(RatMul(delta, delta_n), from_i32(n1 + 1))

\* let term1 = delta * delta_n * T::from_i32(n1).unwrap();
term1_of(delta, delta_n, n1) == RatMul(RatMul(delta, delta_n), from_i32(n1))

variance_of_mut_no_panic(dof, m2_id) ==
  IF dof <= 0 THEN [panic |-> FALSE, value |-> Some(Zero)]
  ELSE [panic |-> FALSE, value |-> Some(RatDiv(m2_id, from_i32(dof)))]

variance_of_mut_absent(dof, m2_id) ==
  IF dof < 0 THEN [panic |-> TRUE, value |-> None]
  ELSE IF dof = 0 THEN [panic |-> FALSE, value |-> None]
  ELSE [panic |-> FALSE, value |-> Some(RatDiv(m2_id, from_i32(dof)))]

\* self.variance[id] = match dof.cmp(&0) { Less => panic!, Equal => Some(zero),
\*                                         Greater => Some(m2 / dof) }
variance_of(dof, m2_id) ==
  IF dof < 0 THEN [panic |-> TRUE, value |-> None]
  ELSE IF dof = 0 THEN [panic |-> FALSE, value |-> Some(Zero)]
  ELSE [panic |-> FALSE, value |-> Some(RatDiv(m2_id, from_i32(dof)))]

\* self.standard_deviation[id] = if let Some(var) = ... { if var >= 0
\*   { Some(var.sqrt()) } else { panic! } } else { None }
standard_deviation_of(var) ==
  IF var = None THEN [panic |-> FALSE, value |-> None]
  ELSE IF ~RatLess(unwrap(var), Zero)
       THEN [panic |-> FALSE, value |-> Some(sqrt(unwrap(var)))]
       ELSE [panic |-> TRUE, value |-> None]

next_sum_mut_absent(s, value) == IF s = None THEN None ELSE Some(RatAdd(unwrap(s), value))

\* self.sum[id] = match self.sum[id] { None => Some(value), Some(x) => Some(x + value) }
next_sum(s, value) == IF s = None THEN Some(value) ELSE Some(RatAdd(unwrap(s), value))

\* self.max[id] = match self.max[id] { None => Some(value), Some(x) => Some(T::max(value, x)) }
next_max(m, value) == IF m = None THEN Some(value) ELSE Some(RatMax(value, unwrap(m)))

next_min_mut_last(m, value) == Some(value)

\* self.min[id] = match self.min[id] { None => Some(value), Some(x) => Some(T::min(value, x)) }
next_min(m, value) == IF m = None THEN Some(value) ELSE Some(RatMin(value, unwrap(m)))

\* The Some(bin_index) arm of add_sample: the statements in program order;
\* a panic! leaves the assignments made before it and abandons the rest.
\* Counts stay below MaxSamples, so n1 + 1 and n - ddof stay inside i32.
update_bin(self, id, value) ==
  LET n1 == as_i32(usize_of(unwrap_or(self.counts[id], 0)))
      n == n1 + 1
      delta == RatSub(value, self.m1[id])
      delta_n == delta_n_of(delta, n)
      term1 == term1_of(delta, delta_n, n1)
      m1_id == RatAdd(self.m1[id], delta_n)
      m2_id == RatAdd(self.m2[id], term1)
      s1 == [self EXCEPT !.counts[id] = next_count(@),
                         !.m1[id] = m1_id,
                         !.m2[id] = m2_id,
                         !.mean[id] = Some(m1_id)]
      dof == n - as_i32(self.ddof)
      var == variance_of(dof, m2_id)
      s2 == [s1 EXCEPT !.variance[id] = var.value]
      std == standard_deviation_of(var.value)
      s3 == [s2 EXCEPT !.standard_deviation[id] = std.value,
                       !.sum[id] = next_sum(@, value),
                       !.max[id] = next_max(@, value),
                       !.min[id] = next_min(@, value)]
  IN  IF var.panic THEN [self |-> s1, result |-> "InvalidDegreesOfFreedom"]
      ELSE IF std.panic THEN [self |-> s2, result |-> "NegativeVariance"]
      ELSE [self |-> s3, result |-> "Ok"]

add_sample_mut_clamp(self, sample, value) ==
  LET bin_index == index_of(self.grid, sample)
  IN  IF bin_index = None
      THEN [self |-> update_bin(self, [a \in 1..Len(self.grid) |-> 0], value).self,
            result |-> "BinNotFound"]
      ELSE update_bin(self, unwrap(bin_index), value)

\* BinnedStatistic::add_sample: the store after the call and how the call
\* ended (Ok(()), Err(BinNotFound), or the panic that aborted it).
add_sample(self, sample, value) ==
  LET bin_index == index_of(self.grid, sample)
  IN  IF bin_index = None
      THEN [self |-> self, result |-> "BinNotFound"]
      ELSE update_bin(self, unwrap(bin_index), value)

(* --------------------------- the state machine ------------------------- *)

Init ==
  \E d \in DdofArgs :
    LET s == new(Grid, d)
    IN  /\ counts = s.counts
        /\ sum = s.sum
        /\ m1 = s.m1
        /\ m2 = s.m2
        /\ mean = s.mean
        /\ variance = s.variance
        /\ standard_deviation = s.standard_deviation
        /\ min = s.min
        /\ max = s.max
        /\ ddof = s.ddof
        /\ ddof_arg = d
        /\ fed = <<>>
        /\ accepted = [id \in BinIds |-> <<>>]
        /\ ok_calls = 0
        /\ last_result = "none"
        /\ status = "ready"

\* One call of add_sample on the store. A panic ends the program: no call
\* follows it.
AddSample(sample, value) ==
  /\ status = "ready"
  /\ Len(fed) < MaxSamples
  /\ LET r == add_sample(Self, sample, value)
         bin_index == index_of(Grid, sample)
     IN  /\ counts' = r.self.counts
         /\ sum' = r.self.sum
         /\ m1' = r.self.m1
         /\ m2' = r.self.m2
         /\ mean' = r.self.mean
         /\ variance' = r.self.variance
         /\ standard_deviation' = r.self.standard_deviation
         /\ min' = r.self.min
         /\ max' = r.self.max
         /\ ddof' = r.self.ddof
         /\ last_result' = r.result
         /\ status' = IF r.result \in {"Ok", "BinNotFound"} THEN "ready" ELSE "aborted"
         /\ ok_calls' = IF r.result = "Ok" THEN ok_calls + 1 ELSE ok_calls
         /\ accepted' = IF r.result = "Ok"
                        THEN [accepted EXCEPT ![unwrap(bin_index)] = Append(@, value)]
                        ELSE accepted
  /\ fed' = Append(fed, <<sample, value>>)
  /\ UNCHANGED ddof_arg

Next == \E sample \in Points, value \in Values : AddSample(sample, value)

Spec == Init /\ [][Next]_vars

(* ------------------------ replaying a sample list ---------------------- *)

\* A store built by new and fed the samples of seq in order, stopping at
\* the first call that panics.
RECURSIVE replay(_, _)
replay(ddof_opt, seq) ==
  IF seq = <<>>
  THEN [self |-> new(Grid, ddof_opt), status |-> "ready"]
  ELSE LET before == replay(ddof_opt, SubSeq(seq, 1, Len(seq) - 1))
           last == seq[Len(seq)]
           r == add_sample(before.self, last[1], last[2])
       IN  IF before.status = "aborted" THEN before
           ELSE [self |-> r.self,
                 status |-> IF r.result \in {"Ok", "BinNotFound"} THEN "ready" ELSE "aborted"]

(* ------------------------- auxiliary definitions ----------------------- *)

\* counts()[b] with absent read as 0.
Count(b) == unwrap_or(counts[b], 0)

RECURSIVE SumOver(_, _)
SumOver(f, S) ==
  IF S = {} THEN 0
  ELSE LET x == CHOOSE y \in S : TRUE IN f[x] + SumOver(f, S \ {x})

RECURSIVE RatSum(_)
RatSum(seq) == IF seq = <<>> THEN Zero ELSE RatAdd(seq[1], RatSum(Tail(seq)))

\* Two-pass population variance: the mean of the squared deviations from the mean.
TwoPassVariance(seq) ==
  LET n == from_i32(Len(seq))
      mu == RatDiv(RatSum(seq), n)
      sq == [i \in 1..Len(seq) |-> RatMul(RatSub(seq[i], mu), RatSub(seq[i], mu))]
  IN  RatDiv(RatSum(sq), n)

Range(seq) == {seq[i] : i \in 1..Len(seq)}

Smallest(S) == CHOOSE x \in S : \A y \in S : ~RatLess(y, x)

Largest(S) == CHOOSE x \in S : \A y \in S : ~RatLess(x, y)

\* The samples of fed that the grid resolves to bin b.
ResolvedTo(b) == {i \in 1..Len(fed) : index_of(Grid, fed[i][1]) = Some(b)}

\* The bin the last call's point resolves to (None before any call or outside the grid).
LastBin == IF fed = <<>> THEN None ELSE index_of(Grid, fed[Len(fed)][1])

Reorderings(seq) ==
  {[i \in 1..Len(seq) |-> seq[p[i]]] : p \in Permutations(1..Len(seq))}

StatsPresent(b) ==
  /\ sum[b] # None /\ mean[b] # None /\ variance[b] # None
  /\ standard_deviation[b] # None /\ min[b] # None /\ max[b] # None

StatsAbsent(b) ==
  /\ sum[b] = None /\ mean[b] = None /\ variance[b] = None
  /\ standard_deviation[b] = None /\ min[b] = None /\ max[b] = None

Bin11 == [a \in 1..Len(Grid) |-> 1]

(* ------------------------------- claims -------------------------------- *)

\* C1: a call whose point the grid does not resolve (index_of is None)
\* returns BinNotFound and leaves every aggregate array and ddof as they were.
C1_OutOfDomainLeavesStoreUnchanged ==
  [][(Len(fed') = Len(fed) + 1 /\ index_of(Grid, fed'[Len(fed')][1]) = None)
       => (last_result' = "BinNotFound" /\ status' = "ready" /\ UNCHANGED store_vars)]_vars

C1_Witness ==
  /\ last_result = "BinNotFound"
  /\ ok_calls > 0
  /\ LastBin = None

\* C2: on the 2x2 grid with default ddof, after (0.5, 0.6) with value 1 and
\* then value 2, counts reads [[0,0],[0,2]], sum reads [[0,0],[0,3]] and mean
\* reads [[None,None],[None,1.5]]: bins never hit read back as 0 in counts
\* and sum.
C2_DocExampleReadsZero ==
  (ddof_arg = None /\ fed = << <<P_in, <<1, 1>> >>, <<P_in, <<2, 1>> >> >>)
    => \A id \in BinIds :
         /\ counts[id] = Some(IF id = Bin11 THEN 2 ELSE 0)
         /\ sum[id] = Some(IF id = Bin11 THEN <<3, 1>> ELSE Zero)
         /\ mean[id] = IF id = Bin11 THEN Some(<<3, 2>>) ELSE None

\* C2 as add_sample computes it: the bins never hit read back absent (None)
\* in counts and sum; the hit bin holds count 2, sum 3 and mean 1.5.
C2_DocExampleReadsAbsent ==
  (ddof_arg = None /\ fed = << <<P_in, <<1, 1>> >>, <<P_in, <<2, 1>> >> >>)
    => \A id \in BinIds :
         /\ counts[id] = IF id = Bin11 THEN Some(2) ELSE None
         /\ sum[id] = IF id = Bin11 THEN Some(<<3, 1>>) ELSE None
         /\ mean[id] = IF id = Bin11 THEN Some(<<3, 2>>) ELSE None

C7_VarianceIsTwoPassVariance ==
  ddof = usize_of(0) =>
    /\ last_result # "NegativeVariance"
    /\ \A b \in BinIds :
         Count(b) > 0 =>
           /\ variance[b] = Some(TwoPassVariance(accepted[b]))
           /\ ~RatLess(unwrap(variance[b]), Zero)

C7_Witness ==
  /\ ddof = usize_of(0)
  /\ \E b \in BinIds : /\ Count(b) >= 3
                       /\ RatLess(Zero, unwrap(variance[b]))
                       /\ Cardinality(Range(accepted[b])) >= 2

\* C8: in every bin with a count, the stored mean is the accumulator m1 and
\* equals sum divided by count.
C8_MeanIsSumOverCount ==
  status = "ready" =>
    \A b \in BinIds :
      Count(b) > 0 =>
        /\ mean[b] = Some(m1[b])
        /\ mean[b] = Some(RatDiv(unwrap(sum[b]), from_i32(Count(b))))

C8_Witness ==
  /\ status = "ready"
  /\ \E b \in BinIds : Count(b) >= 3 /\ unwrap(mean[b])[2] > 1

C10_FatalExactlyBelowDdof ==
  /\ (last_result = "InvalidDegreesOfFreedom")
       <=> (LastBin # None /\ LessThanUsize(Count(unwrap(LastBin)), ddof))
  /\ (ddof \in {usize_of(0), usize_of(1)}) => status = "ready"
  /\ LessThanUsize(1, ddof) =>
       /\ ok_calls = 0
       /\ (\E i \in 1..Len(fed) : index_of(Grid, fed[i][1]) # None) => status = "aborted"

\* C10 for a ddof that `as i32` leaves unchanged: the part of C10 that the
\* code does satisfy.
C10_FatalBelowSmallDdof ==
  (ddof.hi < Limb \div 2) => C10_FatalExactlyBelowDdof

=============================================================================
